---- MODULE Spec2Model ----
(***************************************************************************)
(* Attendee matching and seat allocation engine.                           *)
(*                                                                         *)
(* MatcherRunner.run(event_id) fetches the attendees that are going,       *)
(* pairs them with match_pairs() (one MatchingAgent.find_match() call per  *)
(* focal attendee, with an exclusion list), and seats the pairs with       *)
(* allocate_seats().  MatchingAgent.find_match() is a small graph: the     *)
(* agent node (the LLM), _should_continue(), _tools_node() and             *)
(* _finalize_node().                                                       *)
(*                                                                         *)
(* The LLM, the vector database and the stored facts are outside the       *)
(* engine: what they answer is a nondeterministic choice.  The candidate   *)
(* pool is kept as the set of attendee ids it holds: the engine only reads *)
(* whether it is empty and who is in it.                                   *)
(***************************************************************************)
EXTENDS Integers, Sequences, FiniteSets, TLC

\* ---------------------------------------------------------------- bounds
MaxAttendees == 6
MaxTables == 2
MaxCapacity == 3

\* Re-runs are explored for events of up to half the attendee bound.
MaxRerunAttendees == MaxAttendees \div 2

\* The rows with a name the organizer can fill in: at most MaxInvited.
MaxInvited == 2

\* ------------------------------------------------------ program constants
MaxSearchAttempts == 3
NoMatch == -1
MaxPolls == 30

\* Ids an event can hold as going: 1..MaxAttendees.  The LLM may also name an
\* id that does not exist in the event (MaxAttendees + 1).
AttendeeIds == 1..MaxAttendees
AnswerIds == 1..(MaxAttendees + 1)

\* Chaos levels, in tenths: 0.0 to 10.0.
ChaosLevels == 0..100

\* Texts the LLM can write as the query of a search.
QueryTexts == {"loves hiking", "software engineer", "Python developer"}

\* Variant: the confidence is passed on as the LLM wrote it, unclamped.
ConfidencesUnclamped == {-50, 0, 50, 100, 150}

\* The confidence of a MatchResult, in hundredths: clamped to [0, 1].
Confidences == {0, 50, 100}

VARIABLES
    all_attendee_ids,  \* ids of the attendees with going = True
    total_tables,      \* Event.total_tables
    ppl_per_table,     \* Event.ppl_per_table
    pc,                \* where run() is
    unallocated,       \* match_pairs: ids not yet taken out of the pairing
    unmatched,         \* ids taken out without a partner
    skipped,           \* ids skipped for having no facts or opinions
    pairs,             \* match_pairs: list of (attendee1, attendee2)
    current_attendee_id, \* the focal attendee of the iteration (0: none)
    excluded,          \* exclude_attendee_ids handed to find_match
    search_attempts,   \* MatchingAgentState.search_attempts
    candidates,        \* MatchingAgentState.candidates
    tool_calls,        \* whether the LLM's last message holds tool calls
    result,            \* MatchResult of the invocation
    all_valid,         \* every find_match call so far returned a valid partner
    assignments,       \* seat updates in the order allocate_seats issues them
    seats,             \* attendee id -> [table_no, seat_no] stored in the database
    unplaced,          \* ids allocate_seats could not seat
    error,             \* "error" of the result ("" when success)
    rerun,             \* this run is a second run of the event
    same_inputs,       \* re-run: attendee data unchanged, policy deterministic
    previous,          \* what the earlier run of the event ended with
    concurrent_run,    \* another run of the event was started meanwhile
    verbose,           \* MatcherRunner(verbose=...)
    chaos_level,       \* event.chaos_temp, in tenths
    query_pool,        \* the query texts the LLM draws on for this event
    strategy,          \* the search strategy of the current find_match call
    queries,           \* the query texts of the attempts of the current call
    step,              \* App: step
    eventId,           \* App: eventId (0: null)
    seatingPlan,       \* App: seatingPlan ("null" or "placeholder")
    allocate_requests, \* App: allocate_seats requests awaited (0 or 1)
    totalInvited,      \* AttendeeManager: rows of rawAttendees with a name
    invitesSent,       \* AttendeeManager: invitesSent
    attendeesWithViews, \* AttendeeManager: length of attendeesWithViews
    rsvpStatus,        \* AttendeeManager: the keys of rsvpStatus that are true
    sends,             \* handleSendInvites calls awaited: call -> rows invited
    intervals,         \* running intervals: id -> [pollCount, attendeeIds]
    pollingIntervalRef, \* pollingIntervalRef.current (0: null)
    in_flight,         \* poll requests neither answered nor aborted
    abortControllerRef, \* abortControllerRef.current (<<>>: null)
    settings_views,    \* SeatingVisualizer: settings.views of its props
    plan,              \* SeatingVisualizer: plan.tables of its props
    selectedView,      \* SeatingVisualizer: selectedView
    seatingLayout      \* SeatingVisualizer: what its last render gave

vars == <<all_attendee_ids, total_tables, ppl_per_table, pc, unallocated,
          unmatched, skipped, pairs, current_attendee_id, excluded,
          search_attempts, candidates, tool_calls, result, all_valid,
          assignments, seats, unplaced, error, rerun, same_inputs,
          previous, concurrent_run, verbose, chaos_level, query_pool,
          strategy, queries, step, eventId, seatingPlan, allocate_requests,
          totalInvited, invitesSent, attendeesWithViews, rsvpStatus, sends,
          intervals, pollingIntervalRef, in_flight, abortControllerRef,
          settings_views, plan, selectedView, seatingLayout>>

eventVars == <<all_attendee_ids, total_tables, ppl_per_table, chaos_level,
               query_pool>>
agentVars == <<search_attempts, candidates, tool_calls, result, strategy,
               queries>>
pairingVars == <<unallocated, unmatched, skipped, pairs, current_attendee_id,
                 excluded, all_valid>>
seatVars == <<assignments, seats, unplaced>>
serviceVars == <<rerun, same_inputs, previous, concurrent_run, verbose>>
backendVars == <<eventVars, agentVars, pairingVars, seatVars, serviceVars, pc,
                 error>>
appVars == <<step, eventId, seatingPlan, allocate_requests>>
managerVars == <<totalInvited, invitesSent, attendeesWithViews, rsvpStatus,
                 sends>>
pollingVars == <<intervals, pollingIntervalRef, in_flight, abortControllerRef>>
visualizerVars == <<settings_views, plan, selectedView, seatingLayout>>
frontendVars == <<appVars, managerVars, pollingVars, visualizerVars>>

\* ---------------------------------------------------------------- helpers
Min(S) == CHOOSE x \in S : \A y \in S : x <= y

NoResult == [attendee_id |-> 0, confidence |-> 0]

PairIds(ps) == {ps[i][1] : i \in DOMAIN ps} \cup {ps[i][2] : i \in DOMAIN ps}

\* Variant: the first members of all the pairs, then the second members.
FlattenFirstsThenSeconds(ps) ==
    [k \in 1..(2 * Len(ps)) |->
        IF k <= Len(ps) THEN ps[k][1] ELSE ps[k - Len(ps)][2]]

\* [a for pair in pairs for a in pair]
RECURSIVE Flatten(_)
Flatten(ps) ==
    IF ps = <<>> THEN <<>>
    ELSE <<Head(ps)[1], Head(ps)[2]>> \o Flatten(Tail(ps))

\* No earlier run of the event.
NoPrevious ==
    [pc |-> "none", error |-> "", pairs |-> <<>>, unmatched |-> {},
     skipped |-> {}, assignments |-> <<>>, seats |-> <<>>,
     verbose |-> FALSE]

\* ------------------------------------------------------------------- Init
\* The frontend as App mounts: useState("CREATE_EVENT"), eventId and
\* seatingPlan null; AttendeeManager's state and refs as it mounts.
FrontendInit ==
    /\ step = "CREATE_EVENT"
    /\ eventId = 0
    /\ seatingPlan = "null"
    /\ allocate_requests = 0
    /\ totalInvited = 0
    /\ invitesSent = FALSE
    /\ attendeesWithViews = 0
    /\ rsvpStatus = {}
    /\ sends = <<>>
    /\ intervals = <<>>
    /\ pollingIntervalRef = 0
    /\ in_flight = {}
    /\ abortControllerRef = <<>>

\* useState(settings.views[0] || '').
FirstView(names) == IF names = <<>> THEN "" ELSE names[1]

\* Nothing is rendered yet.
NotRendered == [status |-> "none", tables |-> <<>>]

\* SeatingVisualizer as it is given one of the plans and one of the view
\* lists, before its first render.
VisualizerInitWith(plans, view_lists) ==
    /\ plan \in plans
    /\ settings_views \in view_lists
    /\ selectedView = FirstView(settings_views)
    /\ seatingLayout = NotRendered

\* The backend before run() is called and the frontend as App mounts.
RunInitWith(max_n, levels, texts) ==
    /\ \E n \in 0..max_n : all_attendee_ids = 1..n
    /\ chaos_level \in levels
    /\ query_pool = texts
    /\ strategy = "none"
    /\ queries = <<>>
    /\ total_tables \in 1..MaxTables
    /\ ppl_per_table \in 1..MaxCapacity
    /\ pc = "run"
    /\ unallocated = {}
    /\ unmatched = {}
    /\ skipped = {}
    /\ pairs = <<>>
    /\ current_attendee_id = 0
    /\ excluded = {}
    /\ search_attempts = 0
    /\ candidates = {}
    /\ tool_calls = FALSE
    /\ result = NoResult
    /\ all_valid = TRUE
    /\ assignments = <<>>
    /\ seats = <<>>
    /\ unplaced = <<>>
    /\ error = ""
    /\ rerun = FALSE
    /\ same_inputs = FALSE
    /\ previous = NoPrevious
    /\ concurrent_run = FALSE
    /\ verbose = FALSE
    /\ FrontendInit

\* The state before run() is called, for an event of at most max_n attendees
\* whose chaos level is one of levels and whose query texts are texts.  The
\* plan App hands to SeatingVisualizer is the placeholder plan without tables.
InitWith(max_n, levels, texts) ==
    /\ RunInitWith(max_n, levels, texts)
    /\ VisualizerInitWith({<<>>}, {<<>>})

\* Events of chaos level 3.0 whose searches are told apart by their results
\* only (one query text).
Init == InitWith(MaxAttendees, {30}, {"loves hiking"})

\* ------------------------------- a re-run on unchanged data, same answers
\* In a re-run with unchanged attendee data and a deterministic policy, a
\* data lookup or a find_match call with the input of the earlier run gives
\* what it gave then.  What the earlier run asked and got is read off what
\* it ended with: its focal attendees went up by id, so the ids taken out
\* before attendee f's turn are the pairs with a lower focal id and the
\* unmatched with a lower id.
ReplayOn == rerun /\ same_inputs

PrevFocals ==
    previous.unmatched
        \cup {previous.pairs[i][1] : i \in DOMAIN previous.pairs}

PrevExcluded(f) ==
    UNION {{previous.pairs[i][1], previous.pairs[i][2]} :
              i \in {j \in DOMAIN previous.pairs : previous.pairs[j][1] < f}}
        \cup {u \in previous.unmatched : u < f}

\* The data lookup of attendee a finds what it found in the earlier run.
SameData(a, missing) ==
    ReplayOn /\ a \in PrevFocals => (missing <=> a \in previous.skipped)

\* find_match(f, excl) answers id as it did in the earlier run: the partner
\* it named then, or again an answer that gave no pair then (no match, or an
\* id that was not unallocated).
SameAnswer(f, excl, id) ==
    ReplayOn /\ f \in PrevFocals \ previous.skipped
             /\ excl = PrevExcluded(f) =>
        IF \E i \in DOMAIN previous.pairs : previous.pairs[i][1] = f
        THEN \E i \in DOMAIN previous.pairs : previous.pairs[i] = <<f, id>>
        ELSE id = NoMatch \/ id \notin all_attendee_ids \ PrevExcluded(f)

\* ------------------------------------------------------ MatcherRunner.run
\* Variant: one attendee is enough to start the pairing.
EnoughAttendeesOne(ids) == Cardinality(ids) >= 1

\* "Need at least 2 attendees for pairing"
EnoughAttendees(ids) == Cardinality(ids) >= 2

\* run(): fewer than 2 attendees going is reported at once.
InsufficientAttendees ==
    /\ pc = "run"
    /\ ~EnoughAttendees(all_attendee_ids)
    /\ pc' = "failed"
    /\ error' = "Need at least 2 attendees for pairing"
    /\ UNCHANGED <<frontendVars, eventVars, serviceVars, pairingVars, agentVars, seatVars>>

\* Variant: only the attendees without a stored seat enter the pairing.
StartPairingUnseatedOnly ==
    /\ pc = "run"
    /\ EnoughAttendees(all_attendee_ids)
    /\ unallocated' = all_attendee_ids \ DOMAIN seats
    /\ pc' = "match_pairs"
    /\ UNCHANGED <<frontendVars, eventVars, serviceVars, unmatched, skipped, pairs,
                   current_attendee_id, excluded, all_valid, agentVars,
                   seatVars, error>>

\* run() -> match_pairs(): unallocated starts as all the attendees.
StartPairing ==
    /\ pc = "run"
    /\ EnoughAttendees(all_attendee_ids)
    /\ unallocated' = all_attendee_ids
    /\ pc' = "match_pairs"
    /\ UNCHANGED <<frontendVars, eventVars, serviceVars, unmatched, skipped, pairs, current_attendee_id,
                   excluded, all_valid, agentVars, seatVars, error>>

\* ---------------------------------------------- strategy by chaos level
\* Variant: the bands are the documented integer ranges 0-3, 4-6 and 7-10.
StrategyIntegerBands(level) ==
    IF 0 <= level /\ level <= 30 THEN "similar"
    ELSE IF 40 <= level /\ level <= 60 THEN "similar_weak"
    ELSE IF 70 <= level /\ level <= 100 THEN "opposite"
    ELSE "none"

\* Three bands with inclusive lower boundaries 0, 4 and 7: similar search,
\* similar search biased to the weak end, opposite search.
Strategy(level) ==
    IF 0 <= level /\ level < 40 THEN "similar"
    ELSE IF 40 <= level /\ level < 70 THEN "similar_weak"
    ELSE IF 70 <= level /\ level <= 100 THEN "opposite"
    ELSE "none"

\* ------------------------------------------------- MatcherRunner.match_pairs
\* Variant: only the members of pairs are excluded.
ExcludedPairedOnly(all_ids, unalloc) == PairIds(pairs)

\* Variant: the focal attendee is excluded with the allocated ones.
ExcludedWithFocal(all_ids, unalloc) == (all_ids \ unalloc) \cup {Min(unalloc)}

\* excluded = all_attendee_ids - unallocated
Excluded(all_ids, unalloc) == all_ids \ unalloc

\* Variant: the highest id still unallocated is taken.
NextAttendeeHighest(unalloc) == CHOOSE x \in unalloc : \A y \in unalloc : y <= x

\* The focal attendee of an iteration: the lowest id still unallocated.
NextAttendee(unalloc) == Min(unalloc)

\* The loop goes on while two or more attendees are unallocated.
LoopCondition(unalloc) == Cardinality(unalloc) >= 2

LoopContinues == pc = "match_pairs" /\ LoopCondition(unallocated)

\* get_attendee_data() finds neither facts nor opinions: "Attendee 42 has no
\* facts or opinions. Skipping."  The agent is not called.
SkipMissingData ==
    /\ LoopContinues
    /\ SameData(NextAttendee(unallocated), TRUE)
    /\ LET a == NextAttendee(unallocated) IN
        /\ unallocated' = unallocated \ {a}
        /\ unmatched' = unmatched \cup {a}
        /\ skipped' = skipped \cup {a}
    /\ UNCHANGED <<frontendVars, eventVars, serviceVars, pc, pairs, current_attendee_id, excluded,
                   all_valid, agentVars, seatVars, error>>

\* result = await self.agent.find_match(attendee_id=current_attendee_id, ...,
\*                                      exclude_attendee_ids=excluded)
CallFindMatch ==
    /\ LoopContinues
    /\ SameData(NextAttendee(unallocated), FALSE)
    /\ current_attendee_id' = NextAttendee(unallocated)
    /\ excluded' = Excluded(all_attendee_ids, unallocated)
    /\ search_attempts' = 0
    /\ candidates' = {}
    /\ tool_calls' = FALSE
    /\ result' = NoResult
    /\ strategy' = Strategy(chaos_level)
    /\ queries' = <<>>
    /\ pc' = "agent"
    /\ UNCHANGED <<frontendVars, eventVars, serviceVars, unallocated, unmatched, skipped, pairs,
                   all_valid, seatVars, error>>

\* ------------------------------------------------------------ MatchingAgent
\* Variant: the LLM's tool calls are honoured before the attempt limit is
\* looked at (the order the search limit fix replaced).
should_continue_tools_first(attempts, has_candidates, calls_tools) ==
    IF calls_tools THEN "continue"
    ELSE IF attempts >= MaxSearchAttempts THEN "finalize"
    ELSE IF ~has_candidates THEN "continue"
    ELSE "finalize"

\* _should_continue(): the attempt limit is checked first, then whether the
\* LLM's last message calls tools, then the retry rule.
should_continue(attempts, has_candidates, calls_tools) ==
    IF attempts >= MaxSearchAttempts THEN "finalize"
    ELSE IF calls_tools THEN "continue"
    ELSE IF ~has_candidates /\ attempts < MaxSearchAttempts THEN "continue"
    ELSE "finalize"

\* The agent node: the LLM answers with or without tool calls, and the
\* conditional edge _should_continue() routes its message.
AgentNode ==
    /\ pc = "agent"
    /\ \E calls \in BOOLEAN :
        /\ tool_calls' = calls
        /\ pc' = IF should_continue(search_attempts, candidates /= {}, calls)
                    = "continue"
                 THEN "tools" ELSE "finalize"
    /\ UNCHANGED <<frontendVars, eventVars, serviceVars, pairingVars, search_attempts, candidates,
                   result, strategy, queries, seatVars, error>>

\* Variant: the search is not filtered by event_id.
SearchableAnyEvent(focal, excl) == AnswerIds \ (excl \cup {focal})

\* What a search of the event can return: attendees of the event other than
\* the focal one (exclude_attendee_id) and the excluded ones
\* (exclude_attendee_ids).
Searchable(focal, excl) == AttendeeIds \ (excl \cup {focal})

\* _tools_node(): without tool calls it returns {}; otherwise it runs the
\* calls, extends the candidates with what they return and counts the attempt.
ToolsNode ==
    /\ pc = "tools"
    /\ IF ~tool_calls
       THEN UNCHANGED <<search_attempts, candidates, queries>>
       ELSE \E found \in SUBSET Searchable(current_attendee_id, excluded),
               query \in query_pool :
              /\ candidates' = candidates \cup found
              /\ search_attempts' = search_attempts + 1
              /\ queries' = Append(queries, query)
    /\ pc' = "agent"
    /\ UNCHANGED <<frontendVars, eventVars, serviceVars, pairingVars, tool_calls, result, strategy,
                   seatVars, error>>

\* A tool call fails (embed_text raises "Embedding generation failed", or the
\* vector search raises): _tools_node awaits the tool without catching, so
\* the exception leaves the graph and find_match, and the run ends in error.
SearchFault ==
    /\ pc = "tools"
    /\ tool_calls
    /\ pc' = "failed"
    /\ error' = "Embedding generation failed"
    /\ UNCHANGED <<frontendVars, eventVars, serviceVars, pairingVars, agentVars, seatVars>>

\* _finalize_node(): no candidates gives MatchResult(attendee_id=-1,
\* confidence=0.0); otherwise the LLM's structured output names the partner.
FinalizeNode ==
    /\ pc = "finalize"
    /\ IF candidates = {}
       THEN result' = [attendee_id |-> NoMatch, confidence |-> 0]
       ELSE \E id \in AnswerIds, c \in Confidences :
              result' = [attendee_id |-> id, confidence |-> c]
    /\ SameAnswer(current_attendee_id, excluded, result'.attendee_id)
    /\ pc' = "decide"
    /\ UNCHANGED <<frontendVars, eventVars, serviceVars, pairingVars, search_attempts, candidates,
                   tool_calls, strategy, queries, seatVars, error>>

\* ------------------------------------------- match_pairs: after find_match
\* Variant: the returned id is never checked against unallocated.
IsInvalidMatchUnchecked(id, unalloc) == FALSE

\* "Agent returned invalid match: 99 (not in unallocated set)"
IsInvalidMatch(id, unalloc) == id \notin unalloc

\* A partner the agent is meant to return: unallocated and not the focal one.
ValidPartner(id) == id \in unallocated \ {current_attendee_id}

ResetAgent ==
    /\ current_attendee_id' = 0
    /\ excluded' = {}
    /\ search_attempts' = 0
    /\ candidates' = {}
    /\ tool_calls' = FALSE
    /\ result' = NoResult
    /\ strategy' = "none"
    /\ queries' = <<>>

\* Variant: a no-match result ends the run with an error.
NoMatchAborts ==
    /\ pc = "decide"
    /\ result.attendee_id = NoMatch
    /\ pc' = "failed"
    /\ error' = "No match found"
    /\ UNCHANGED <<frontendVars, eventVars, serviceVars, pairingVars, agentVars, seatVars>>

\* No match found for the attendee: it leaves the pairing alone.
NoMatchFound ==
    /\ pc = "decide"
    /\ result.attendee_id = NoMatch
    /\ unallocated' = unallocated \ {current_attendee_id}
    /\ unmatched' = unmatched \cup {current_attendee_id}
    /\ all_valid' = FALSE
    /\ pc' = "match_pairs"
    /\ ResetAgent
    /\ UNCHANGED <<frontendVars, eventVars, serviceVars, skipped, pairs, seatVars, error>>

\* Variant: the invalid id is paired with the focal attendee all the same.
InvalidMatchPairsAnyway ==
    /\ pc = "decide"
    /\ result.attendee_id /= NoMatch
    /\ IsInvalidMatch(result.attendee_id, unallocated)
    /\ pairs' = Append(pairs, <<current_attendee_id, result.attendee_id>>)
    /\ unallocated' = unallocated \ {current_attendee_id}
    /\ all_valid' = FALSE
    /\ pc' = "match_pairs"
    /\ ResetAgent
    /\ UNCHANGED <<frontendVars, eventVars, serviceVars, unmatched, skipped, seatVars, error>>

\* Invalid match returned: skip the current attendee, log the error, continue.
InvalidMatch ==
    /\ pc = "decide"
    /\ result.attendee_id /= NoMatch
    /\ IsInvalidMatch(result.attendee_id, unallocated)
    /\ unallocated' = unallocated \ {current_attendee_id}
    /\ unmatched' = unmatched \cup {current_attendee_id}
    /\ all_valid' = FALSE
    /\ pc' = "match_pairs"
    /\ ResetAgent
    /\ UNCHANGED <<frontendVars, eventVars, serviceVars, skipped, pairs, seatVars, error>>

\* Variant: the matched attendee stays in unallocated.
MatchAcceptedPartnerKept ==
    /\ pc = "decide"
    /\ result.attendee_id /= NoMatch
    /\ ~IsInvalidMatch(result.attendee_id, unallocated)
    /\ pairs' = Append(pairs, <<current_attendee_id, result.attendee_id>>)
    /\ unallocated' = unallocated \ {current_attendee_id}
    /\ all_valid' = (all_valid /\ ValidPartner(result.attendee_id))
    /\ pc' = "match_pairs"
    /\ ResetAgent
    /\ UNCHANGED <<frontendVars, eventVars, serviceVars, unmatched, skipped, seatVars, error>>

\* Variant: the focal attendee stays in unallocated.
MatchAcceptedFocalKept ==
    /\ pc = "decide"
    /\ result.attendee_id /= NoMatch
    /\ ~IsInvalidMatch(result.attendee_id, unallocated)
    /\ pairs' = Append(pairs, <<current_attendee_id, result.attendee_id>>)
    /\ unallocated' = unallocated \ {result.attendee_id}
    /\ all_valid' = (all_valid /\ ValidPartner(result.attendee_id))
    /\ pc' = "match_pairs"
    /\ ResetAgent
    /\ UNCHANGED <<frontendVars, eventVars, serviceVars, unmatched, skipped, seatVars, error>>

\* Variant: with verbose logging on, the partner stays in unallocated.
MatchAcceptedVerboseKeepsPartner ==
    /\ pc = "decide"
    /\ result.attendee_id /= NoMatch
    /\ ~IsInvalidMatch(result.attendee_id, unallocated)
    /\ pairs' = Append(pairs, <<current_attendee_id, result.attendee_id>>)
    /\ unallocated' =
          IF verbose THEN unallocated \ {current_attendee_id}
          ELSE unallocated \ {current_attendee_id, result.attendee_id}
    /\ all_valid' = (all_valid /\ ValidPartner(result.attendee_id))
    /\ pc' = "match_pairs"
    /\ ResetAgent
    /\ UNCHANGED <<frontendVars, eventVars, serviceVars, unmatched, skipped, seatVars, error>>

\* "Matched 1 with 5": the pair is appended and both leave unallocated.
MatchAccepted ==
    /\ pc = "decide"
    /\ result.attendee_id /= NoMatch
    /\ ~IsInvalidMatch(result.attendee_id, unallocated)
    /\ pairs' = Append(pairs, <<current_attendee_id, result.attendee_id>>)
    /\ unallocated' = unallocated \ {current_attendee_id, result.attendee_id}
    /\ all_valid' = (all_valid /\ ValidPartner(result.attendee_id))
    /\ pc' = "match_pairs"
    /\ ResetAgent
    /\ UNCHANGED <<frontendVars, eventVars, serviceVars, unmatched, skipped, seatVars, error>>

\* Variant: a run without pairs goes on to the seat allocation.
NoPairsCreatedSucceeds ==
    /\ pc = "match_pairs"
    /\ ~LoopCondition(unallocated)
    /\ pairs = <<>>
    /\ pc' = "allocate_seats"
    /\ UNCHANGED <<frontendVars, eventVars, serviceVars, pairingVars, agentVars, seatVars, error>>

\* The loop is over and no pair was made: run() reports the error.
NoPairsCreated ==
    /\ pc = "match_pairs"
    /\ ~LoopCondition(unallocated)
    /\ pairs = <<>>
    /\ pc' = "failed"
    /\ error' = "No pairs could be created"
    /\ UNCHANGED <<frontendVars, eventVars, serviceVars, pairingVars, agentVars, seatVars>>

\* "Matching complete: 10 pairs created"
PairingComplete ==
    /\ pc = "match_pairs"
    /\ ~LoopCondition(unallocated)
    /\ pairs /= <<>>
    /\ pc' = "allocate_seats"
    /\ UNCHANGED <<frontendVars, eventVars, serviceVars, pairingVars, agentVars, seatVars, error>>

\* The attendees left without a partner when the pairing is over.
Remainder == unmatched \cup unallocated

\* ----------------------------------------------- MatcherRunner.allocate_seats
\* Variant: the table is taken with the remainder instead of the quotient.
table_no_remainder(seat_index, per_table) == seat_index % per_table

\* table_no = seat_index // ppl_per_table
table_no(seat_index, per_table) == seat_index \div per_table

\* seat_no = seat_index % ppl_per_table
seat_no(seat_index, per_table) == seat_index % per_table

\* Variant: every attendee is seated, whether or not its table exists.
SeatUpdatesUnchecked(flat, tables, per_table) ==
    [k \in 1..Len(flat) |->
        [attendee_id |-> flat[k],
         table_no |-> (k - 1) \div per_table,
         seat_no |-> (k - 1) % per_table]]

\* The seat updates of allocate_seats, in order: the attendee at seat_index is
\* seated unless its table does not exist ("Ran out of tables!").
SeatUpdates(flat, tables, per_table) ==
    LET fits(i) == table_no(i - 1, per_table) < tables
        idx == SelectSeq([i \in 1..Len(flat) |-> i], fits)
    IN [k \in 1..Len(idx) |->
          [attendee_id |-> flat[idx[k]],
           table_no |-> table_no(idx[k] - 1, per_table),
           seat_no |-> seat_no(idx[k] - 1, per_table)]]

\* The attendees allocate_seats could not seat, in order.
NotSeated(flat, tables, per_table) ==
    LET out(i) == table_no(i - 1, per_table) >= tables
        idx == SelectSeq([i \in 1..Len(flat) |-> i], out)
    IN [k \in 1..Len(idx) |-> flat[idx[k]]]

\* The rows after the updates are committed: a later update of the same
\* attendee overwrites an earlier one.
Stored(updates) ==
    LET ids == {updates[k].attendee_id : k \in DOMAIN updates}
        last(a) == CHOOSE k \in DOMAIN updates :
                      /\ updates[k].attendee_id = a
                      /\ \A j \in DOMAIN updates :
                            updates[j].attendee_id = a => j <= k
    IN [a \in ids |-> [table_no |-> updates[last(a)].table_no,
                       seat_no |-> updates[last(a)].seat_no]]

\* The table after a commit: the rows the updates name hold their new seat,
\* every other row is as it was.
Committed(rows, updates) ==
    LET new == Stored(updates) IN
    [a \in DOMAIN rows \cup DOMAIN new |->
        IF a \in DOMAIN new THEN new[a] ELSE rows[a]]

\* Variant: each update is committed as it is issued.
AllocateSeatsAutocommit ==
    /\ pc = "allocate_seats"
    /\ LET flat == Flatten(pairs) IN
        /\ assignments' = SeatUpdates(flat, total_tables, ppl_per_table)
        /\ unplaced' = NotSeated(flat, total_tables, ppl_per_table)
        /\ seats' = Committed(seats,
                         SeatUpdates(flat, total_tables, ppl_per_table))
    /\ pc' = "commit"
    /\ UNCHANGED <<frontendVars, eventVars, serviceVars, pairingVars, agentVars, error>>

\* Variant: the unpaired attendees are seated after the pairs.
AllocateSeatsWithRemainder ==
    /\ pc = "allocate_seats"
    /\ LET rest == Remainder
           order == [i \in 1..Cardinality(rest) |->
                       CHOOSE a \in rest :
                          Cardinality({b \in rest : b < a}) = i - 1]
           flat == Flatten(pairs) \o order
       IN
        /\ assignments' = SeatUpdates(flat, total_tables, ppl_per_table)
        /\ unplaced' = NotSeated(flat, total_tables, ppl_per_table)
    /\ pc' = "commit"
    /\ UNCHANGED <<frontendVars, eventVars, serviceVars, pairingVars, agentVars, seats, error>>

\* allocate_seats(pairs, event, session): the pairs are seated sequentially,
\* one UPDATE per attendee in the session.
AllocateSeats ==
    /\ pc = "allocate_seats"
    /\ LET flat == Flatten(pairs) IN
        /\ assignments' = SeatUpdates(flat, total_tables, ppl_per_table)
        /\ unplaced' = NotSeated(flat, total_tables, ppl_per_table)
    /\ pc' = "commit"
    /\ UNCHANGED <<frontendVars, eventVars, serviceVars, pairingVars, agentVars, seats, error>>

\* "1 COMMIT for all updates": the session's updates reach the table.
CommitSeats ==
    /\ pc = "commit"
    /\ seats' = Committed(seats, assignments)
    /\ pc' = "done"
    /\ UNCHANGED <<frontendVars, eventVars, serviceVars, pairingVars, agentVars, assignments, unplaced,
                   error>>

\* The commit fails (database lock error): nothing of the session is stored.
CommitFault ==
    /\ pc = "commit"
    /\ pc' = "failed"
    /\ error' = "Database lock error"
    /\ UNCHANGED <<frontendVars, eventVars, serviceVars, pairingVars, agentVars, seatVars>>

\* ---------------------------------------------------- the result of run()
\* Variant: attendees_seated counts the seat updates issued.
attendees_seated_counted(ps, updates) == Len(updates)

\* allocate_seats returns None: run() reports two attendees per pair.
attendees_seated(ps, updates) == Len(ps) * 2

\* Variant: attendees_unallocated counts who got no seat update.
CountsUnallocatedBySeat(ids, ps, updates) ==
    [attendees_count |-> Cardinality(ids),
     pairs_created |-> Len(ps),
     attendees_seated |-> attendees_seated(ps, updates),
     attendees_unallocated |-> Cardinality(ids) - Len(updates)]

\* The counts of the result dict.
Counts(ids, ps, updates) ==
    [attendees_count |-> Cardinality(ids),
     pairs_created |-> Len(ps),
     attendees_seated |-> attendees_seated(ps, updates),
     attendees_unallocated |->
         Cardinality(ids) - attendees_seated(ps, updates)]

\* ------------------------------------------------ the allocation endpoints
\* What a run ended with.
Outcome ==
    [pc |-> pc, error |-> error, pairs |-> pairs, unmatched |-> unmatched,
     skipped |-> skipped, assignments |-> assignments, seats |-> seats,
     verbose |-> verbose]

\* The allocation is triggered again after the run of the event has ended,
\* with start_matching ("Always verbose"): a new MatcherRunner.run on the
\* same event, the table as the earlier run left it.
RunAgain ==
    /\ pc \in {"done", "failed"}
    /\ ~rerun
    /\ rerun' = TRUE
    /\ same_inputs' \in BOOLEAN
    /\ verbose' = TRUE
    /\ previous' = Outcome
    /\ pc' = "run"
    /\ unallocated' = {}
    /\ unmatched' = {}
    /\ skipped' = {}
    /\ pairs' = <<>>
    /\ all_valid' = TRUE
    /\ ResetAgent
    /\ assignments' = <<>>
    /\ unplaced' = <<>>
    /\ error' = ""
    /\ UNCHANGED <<frontendVars, eventVars, seats, concurrent_run>>

\* POST /events/{id}/start_matching while a run of the event is in flight:
\* the event exists, so the background task is added and 202 is returned.
StartMatchingWhileRunning ==
    /\ pc \notin {"done", "failed"}
    /\ ~concurrent_run
    /\ concurrent_run' = TRUE
    /\ UNCHANGED <<frontendVars, eventVars, pc, pairingVars, agentVars, seatVars, error,
                   rerun, same_inputs, previous, verbose>>

Next ==
    \/ InsufficientAttendees
    \/ StartPairing
    \/ SkipMissingData
    \/ CallFindMatch
    \/ AgentNode
    \/ ToolsNode
    \/ SearchFault
    \/ FinalizeNode
    \/ NoMatchFound
    \/ InvalidMatch
    \/ MatchAccepted
    \/ NoPairsCreated
    \/ PairingComplete
    \/ AllocateSeats
    \/ CommitSeats
    \/ CommitFault

Spec == Init /\ [][Next]_vars

\* An event whose allocation is triggered again after its run has ended.
RerunInit == Init /\ Cardinality(all_attendee_ids) <= MaxRerunAttendees

\* ------------------------------------------------------------ the frontend
\* The calls of handleSendInvites that can be awaited at once; a call that
\* gets to startPolling gives its number to the interval it starts.
SendIds == {1, 2}

\* The ids a poll response can hold a true rsvp entry for.
ServerIds == 1..MaxInvited

\* AttendeeManager is rendered in this step only.
Mounted == step = "MANAGE_ATTENDEES"

Without(f, k) == [j \in DOMAIN f \ {k} |-> f[j]]

\* EventCreationForm's onSubmit: handleEventCreate.  The settings may carry
\* no eventId.
HandleEventCreate ==
    /\ step = "CREATE_EVENT"
    /\ eventId' \in {0, 1}
    /\ step' = "MANAGE_ATTENDEES"
    /\ UNCHANGED <<visualizerVars, backendVars, seatingPlan, allocate_requests, managerVars,
                   pollingVars>>

\* handleInputChange / handleAddRow / handleRemoveRow: the rows with a name
\* change; the inputs are disabled once invitesSent.
HandleInputChange ==
    /\ Mounted
    /\ ~invitesSent
    /\ totalInvited' \in (0..MaxInvited) \ {totalInvited}
    /\ UNCHANGED <<visualizerVars, backendVars, appVars, invitesSent, attendeesWithViews,
                   rsvpStatus, sends, pollingVars>>

\* Variant: the invite button is disabled while a call of handleSendInvites
\* is awaited.
SendButtonEnabledOnce == ~invitesSent /\ totalInvited > 0 /\ sends = <<>>

\* The invite button: rendered while !invitesSent, disabled while
\* totalInvited === 0.
SendButtonEnabled == ~invitesSent /\ totalInvited > 0

\* handleSendInvites up to its first await: returns without an event id,
\* else sets every invited row's status to false and sends the PUT.
HandleSendInvites ==
    /\ Mounted
    /\ SendButtonEnabled
    /\ \E s \in SendIds \ (DOMAIN sends \cup DOMAIN intervals) :
        /\ \A t \in SendIds \ (DOMAIN sends \cup DOMAIN intervals) : s <= t
        /\ IF eventId = 0
           THEN UNCHANGED <<rsvpStatus, sends>>
           ELSE /\ rsvpStatus' = {}
                /\ sends' = [t \in DOMAIN sends \cup {s} |->
                                IF t = s THEN totalInvited ELSE sends[t]]
    /\ UNCHANGED <<visualizerVars, backendVars, appVars, totalInvited, invitesSent,
                   attendeesWithViews, pollingVars>>

\* handleSendInvites: the PUT fails ("Error saving attendees"), return.
SendInvitesFails ==
    /\ \E s \in DOMAIN sends : sends' = Without(sends, s)
    /\ UNCHANGED <<visualizerVars, backendVars, appVars, totalInvited, invitesSent,
                   attendeesWithViews, rsvpStatus, pollingVars>>

\* Variant: startPolling clears the interval of pollingIntervalRef before it
\* sets a new one.
StartPollingClearsFirst(s, ids) ==
    /\ intervals' =
          [t \in (DOMAIN intervals \ {pollingIntervalRef}) \cup {s} |->
              IF t = s THEN [pollCount |-> 0, attendeeIds |-> ids]
              ELSE intervals[t]]
    /\ pollingIntervalRef' = s

\* startPolling: pollCount = 0 and a new interval, its id stored in
\* pollingIntervalRef.
StartPolling(s, ids) ==
    /\ intervals' = [t \in DOMAIN intervals \cup {s} |->
                        IF t = s THEN [pollCount |-> 0, attendeeIds |-> ids]
                        ELSE intervals[t]]
    /\ pollingIntervalRef' = s

\* handleSendInvites after its awaits: setAttendeesWithViews,
\* setInvitesSent(true), onSetAttendees, startPolling.  onSetAttendees
\* returns no promise, so nothing runs between the setters and startPolling.
\* The setters of an unmounted component change nothing.
SendInvitesDone ==
    /\ \E s \in DOMAIN sends :
        /\ sends' = Without(sends, s)
        /\ attendeesWithViews' = IF Mounted THEN sends[s] ELSE attendeesWithViews
        /\ StartPolling(s, sends[s])
    /\ invitesSent' = (invitesSent \/ Mounted)
    /\ UNCHANGED <<visualizerVars, backendVars, appVars, totalInvited, rsvpStatus, in_flight,
                   abortControllerRef>>

\* Variant: pollRsvpStatus starts its request without aborting the last one.
StartedPollKeepsLast(flying, last, req) == flying \cup {req}

\* pollRsvpStatus up to its await: the request of abortControllerRef is
\* aborted and a new one is sent.
StartedPoll(flying, last, req) == (flying \ {last}) \cup {req}

\* The interval callback: pollCount++, pollRsvpStatus, and at 30 polls
\* markAllAsRsvped, which ends with stopPolling: the interval of
\* pollingIntervalRef is cleared and the request of abortControllerRef is
\* aborted.  Counts above MaxPolls + 1 are not told apart.
Tick(i) ==
    /\ i \in DOMAIN intervals
    /\ LET n == intervals[i].pollCount
           pollCount == IF n > MaxPolls THEN n ELSE n + 1
           ids == intervals[i].attendeeIds
           req == <<i, pollCount, ids>>
           counted == [intervals EXCEPT ![i].pollCount = pollCount]
       IN IF pollCount >= MaxPolls
          THEN /\ rsvpStatus' = IF Mounted THEN 1..ids ELSE rsvpStatus
               /\ intervals' = Without(counted, pollingIntervalRef)
               /\ pollingIntervalRef' = 0
               /\ in_flight' =
                     StartedPoll(in_flight, abortControllerRef, req) \ {req}
               /\ abortControllerRef' = <<>>
          ELSE /\ intervals' = counted
               /\ in_flight' = StartedPoll(in_flight, abortControllerRef, req)
               /\ abortControllerRef' = req
               /\ UNCHANGED <<rsvpStatus, pollingIntervalRef>>
    /\ UNCHANGED <<visualizerVars, backendVars, appVars, totalInvited, invitesSent,
                   attendeesWithViews, sends>>

\* pollRsvpStatus after its awaits, for a request that was not aborted:
\* setRsvpStatus(rsvpMap), and stopPolling when every id of attendeeIds has
\* a true entry.
PollResponse(req) ==
    /\ req \in in_flight
    /\ \E rsvped \in SUBSET ServerIds :
        /\ rsvpStatus' = IF Mounted THEN rsvped ELSE rsvpStatus
        /\ IF (1..req[3]) \subseteq rsvped
           THEN /\ intervals' = Without(intervals, pollingIntervalRef)
                /\ pollingIntervalRef' = 0
                /\ in_flight' = (in_flight \ {req}) \ {abortControllerRef}
                /\ abortControllerRef' = <<>>
           ELSE /\ in_flight' = in_flight \ {req}
                /\ UNCHANGED <<intervals, pollingIntervalRef,
                               abortControllerRef>>
    /\ UNCHANGED <<visualizerVars, backendVars, appVars, totalInvited, invitesSent,
                   attendeesWithViews, sends>>

\* pollRsvpStatus: the fetch fails or answers with an error status
\* ("Error polling RSVP status").
PollFails(req) ==
    /\ req \in in_flight
    /\ in_flight' = in_flight \ {req}
    /\ UNCHANGED <<visualizerVars, backendVars, appVars, managerVars, intervals,
                   pollingIntervalRef, abortControllerRef>>

\* Variant: the button is offered as soon as the invites are sent.
GenerateOfferedOnInvite == attendeesWithViews > 0 /\ invitesSent

\* allRsvped, and the render of the Generate Seating Plan button.
GenerateOffered ==
    /\ attendeesWithViews > 0
    /\ invitesSent
    /\ Cardinality(rsvpStatus) = totalInvited
    /\ totalInvited > 0

\* Variant: the plan is shown as soon as the request is sent.
HandleGeneratePlanShowsPlanAtOnce ==
    /\ Mounted
    /\ GenerateOffered
    /\ allocate_requests = 0
    /\ allocate_requests' = IF eventId = 0 THEN allocate_requests
                            ELSE allocate_requests + 1
    /\ step' = "VIEW_PLAN"
    /\ UNCHANGED <<visualizerVars, backendVars, eventId, seatingPlan, managerVars,
                   pollingVars>>

\* A click on Generate Seating Plan: onGeneratePlan = handleGeneratePlan up
\* to its await: returns without an event id, else posts allocate_seats.
HandleGeneratePlan ==
    /\ Mounted
    /\ GenerateOffered
    /\ allocate_requests = 0
    /\ allocate_requests' = IF eventId = 0 THEN allocate_requests
                            ELSE allocate_requests + 1
    /\ UNCHANGED <<visualizerVars, backendVars, step, eventId, seatingPlan, managerVars,
                   pollingVars>>

\* Variant: the error of the request is swallowed and the plan is shown.
AllocateFailsShowsPlan ==
    /\ allocate_requests > 0
    /\ allocate_requests' = allocate_requests - 1
    /\ seatingPlan' = "placeholder"
    /\ step' = "VIEW_PLAN"
    /\ UNCHANGED <<visualizerVars, backendVars, eventId, managerVars, pollingVars>>

\* handleGeneratePlan: the request fails ("Error allocating seats").
AllocateFails ==
    /\ allocate_requests > 0
    /\ allocate_requests' = allocate_requests - 1
    /\ UNCHANGED <<visualizerVars, backendVars, step, eventId, seatingPlan, managerVars,
                   pollingVars>>

\* handleGeneratePlan: the request succeeds: setSeatingPlan(placeholderPlan),
\* setStep("VIEW_PLAN").  AttendeeManager is unmounted and its cleanup
\* effect calls stopPolling.
AllocateSucceeds ==
    /\ allocate_requests > 0
    /\ allocate_requests' = allocate_requests - 1
    /\ seatingPlan' = "placeholder"
    /\ step' = "VIEW_PLAN"
    /\ IF Mounted
       THEN /\ intervals' = Without(intervals, pollingIntervalRef)
            /\ pollingIntervalRef' = 0
            /\ in_flight' = in_flight \ {abortControllerRef}
            /\ abortControllerRef' = <<>>
       ELSE UNCHANGED pollingVars
    /\ UNCHANGED <<visualizerVars, backendVars, eventId, managerVars>>

FrontendNext ==
    \/ HandleEventCreate
    \/ HandleInputChange
    \/ HandleSendInvites
    \/ SendInvitesFails
    \/ SendInvitesDone
    \/ \E i \in SendIds : Tick(i)
    \/ \E req \in in_flight : PollResponse(req)
    \/ \E req \in in_flight : PollFails(req)
    \/ HandleGeneratePlan
    \/ AllocateFails
    \/ AllocateSucceeds

\* The frontend alone: no run of the backend is looked at.
FrontendInit0 ==
    /\ InitWith(0, {30}, {"loves hiking"})
    /\ total_tables = 1
    /\ ppl_per_table = 1

FrontendSpec == FrontendInit0 /\ [][FrontendNext]_vars

\* The callback of a running interval is called again and again.
FrontendFairSpec ==
    FrontendSpec /\ \A i \in SendIds : WF_vars(Tick(i))

\* ------------------------------------------------------ SeatingVisualizer
\* View values are written in hundredths: 50 is the neutral 0.5.
ViewNames == {"politics", "age"}
ViewValues == {-50, 0, 50, 150}
TableCapacities == 0..2
\* table_no of an attendee that has none (typeof table_no is not 'number').
Undefined == -1
TableNos == {Undefined, 0, 1, 2}
MaxPlanTables == 2
MaxTableAttendees == 2

\* settings.views.indexOf(selectedView): the 0-based index, or -1.
indexOf(names, name) ==
    IF \E i \in DOMAIN names : names[i] = name
    THEN Min({i \in DOMAIN names : names[i] = name}) - 1
    ELSE -1

\* Variant: only a missing element counts as no value.
FalsyUndefinedOnly(values, index) == index + 1 \notin DOMAIN values

\* !attendee.opinions.views[viewIndex]: no element at the index, or the
\* element is 0.
Falsy(values, index) ==
    \/ index + 1 \notin DOMAIN values
    \/ values[index + 1] = 0

\* Math.max(0, Math.min(1, value)).
Clamp(value) == IF value < 0 THEN 0 ELSE IF value > 100 THEN 100 ELSE value

getCurrentViewValue(attendee, selected, names) ==
    LET viewIndex == indexOf(names, selected)
    IN IF viewIndex = -1 \/ Falsy(attendee.views, viewIndex)
       THEN 50
       ELSE Clamp(attendee.views[viewIndex + 1])

\* The attendees of all tables, in the order of the two forEach loops.
RECURSIVE AllAttendees(_)
AllAttendees(tables) ==
    IF tables = <<>> THEN <<>>
    ELSE tables[1].attendees \o AllAttendees(Tail(tables))

\* tableMap: a key for every table id and for every numeric table_no, and
\* under each key the attendees with that table_no.
tableMap(tables) ==
    LET all == AllAttendees(tables)
        keys == {tables[t].id : t \in DOMAIN tables}
                  \cup ({all[j].table_no : j \in DOMAIN all} \ {Undefined})
    IN [k \in keys |-> SelectSeq(all, LAMBDA a : a.table_no = k)]

\* plan.tables.find(t => t.id === Number(tableId)), then
\* table?.capacity ?? 0.
CapacityOf(tables, tableId) ==
    IF \E t \in DOMAIN tables : tables[t].id = tableId
    THEN tables[Min({t \in DOMAIN tables : tables[t].id = tableId})].capacity
    ELSE 0

\* The render: per key of tableMap the header counts, a chip with the view
\* value for every attendee and Array(capacity - attendees.length)
\* placeholders; Array of a negative length throws RangeError and nothing
\* is rendered.
Render(tables, selected, names) ==
    LET map == tableMap(tables)
        emptySeats(k) == CapacityOf(tables, k) - Len(map[k])
    IN IF \E k \in DOMAIN map : emptySeats(k) < 0
       THEN [status |-> "RangeError", tables |-> <<>>]
       ELSE [status |-> "ok",
             tables |->
               [k \in DOMAIN map |->
                  [occupants |-> Len(map[k]),
                   capacity |-> CapacityOf(tables, k),
                   empty |-> emptySeats(k),
                   chips |-> [j \in DOMAIN map[k] |->
                                [id |-> map[k][j].id,
                                 value |-> getCurrentViewValue(
                                              map[k][j], selected, names)]]]]]

\* The first render of the component.
Mount ==
    /\ seatingLayout = NotRendered
    /\ seatingLayout' = Render(plan, selectedView, settings_views)
    /\ UNCHANGED <<backendVars, appVars, managerVars, pollingVars,
                   settings_views, plan, selectedView>>

\* The view selector's onChange: setSelectedView and the render that
\* follows.  A component whose render threw is no longer on the page.
SelectView ==
    /\ seatingLayout.status = "ok"
    /\ \E name \in ({settings_views[i] : i \in DOMAIN settings_views}
                       \ {selectedView}) :
        /\ selectedView' = name
        /\ seatingLayout' = Render(plan, name, settings_views)
    /\ UNCHANGED <<backendVars, appVars, managerVars, pollingVars,
                   settings_views, plan>>

VisualizerNext == Mount \/ SelectView

\* The lists of at most two different view names.
ViewLists ==
    {<<>>} \cup {<<a>> : a \in ViewNames}
           \cup {p \in ViewNames \X ViewNames : p[1] /= p[2]}

\* Attendee j of table t of the plan, with its views and its table_no.
PlanAttendee(t, j, values, no) ==
    [id |-> 10 * t + j, table_no |-> no, views |-> values]

\* The lists of at most MaxTableAttendees attendees that table t can hold:
\* every attendee has the view value 0.5 and any table_no.
AttendeeLists(t) ==
    UNION {{[j \in 1..n |-> PlanAttendee(t, j, <<50>>, f[j])] :
               f \in [1..n -> TableNos]} : n \in 0..MaxTableAttendees}

TablesAt(t) ==
    {[id |-> t - 1, capacity |-> c, attendees |-> list] :
        c \in TableCapacities, list \in AttendeeLists(t)}

\* The plans of at most max_tables tables with the ids 0, 1, ...
Plans(max_tables) ==
    UNION {{p \in [1..n -> UNION {TablesAt(t) : t \in 1..n}] :
               \A t \in 1..n : p[t] \in TablesAt(t)} : n \in 0..max_tables}

\* The lists of at most two view values an attendee can hold.
ValueLists ==
    {<<>>} \cup {<<a>> : a \in ViewValues}
           \cup {<<a, b>> : a \in ViewValues, b \in ViewValues}

\* The plans of one table with one attendee, seated there, of any views.
OneAttendeePlans ==
    {<<[id |-> 0, capacity |-> c,
        attendees |-> <<PlanAttendee(1, 1, values, 0)>>]>> :
        c \in TableCapacities \ {0}, values \in ValueLists}

\* The component with the props of either family: any plan with two views
\* to choose from, or one attendee of any views with any list of views.
VisualizerInit ==
    /\ RunInitWith(0, {30}, {"loves hiking"})
    /\ total_tables = 1
    /\ ppl_per_table = 1
    /\ \/ VisualizerInitWith(Plans(MaxPlanTables), {<<"politics", "age">>})
       \/ VisualizerInitWith(OneAttendeePlans, ViewLists)

VisualizerSpec == VisualizerInit /\ [][VisualizerNext]_vars

\* Runs of small events of every chaos level.
StrategyInit == InitWith(2, ChaosLevels, {"loves hiking"})

StrategySpec == StrategyInit /\ [][Next]_vars

\* Runs of small events in which the LLM is free to write any of the query
\* texts.
QueryInit == InitWith(2, {30}, QueryTexts)

QuerySpec == QueryInit /\ [][Next]_vars

RerunNext ==
    \/ Next
    \/ RunAgain

RerunSpec == RerunInit /\ [][RerunNext]_vars

\* An event whose allocation is triggered again while its run is in flight.
TriggerNext ==
    \/ Next
    \/ StartMatchingWhileRunning

TriggerSpec == RerunInit /\ [][TriggerNext]_vars

\* A run that is never left half-way: the await of every step returns (the
\* LLM answers, the searches and the database return or raise), so a step is
\* taken whenever one is possible.  What the LLM answers is not constrained.
FairSpec == RerunInit /\ [][Next]_vars /\ WF_vars(Next)

\* ======================================================== checked properties
N == Cardinality(all_attendee_ids)
TotalSeats == total_tables * ppl_per_table

\* The pairing of a run is over: the seats are being or have been allocated,
\* or run() ended with no pair made.
PairingOver ==
    \/ pc \in {"allocate_seats", "commit", "done"}
    \/ pc = "failed" /\ error = "No pairs could be created"

\* Errors that come from a collaborator (embedding service, database).
FaultErrors == {"Embedding generation failed", "Database lock error"}

InFindMatch == pc \in {"agent", "tools", "finalize", "decide"}

\* The focal attendees of the iterations that are over: the first members of
\* the pairs and the attendees removed without a partner.
\* The pairing loop of match_pairs has been left.
LoopOver == pc \in {"allocate_seats", "commit", "done", "failed"}

PastFocals == {pairs[i][1] : i \in DOMAIN pairs} \cup unmatched

Members(pair) == {pair[1], pair[2]}

\* C1: when the pairing of a run is over, the ids in the pairs together with
\* the unallocated remainder are exactly the attending ids: none is missing,
\* none is in two pairs and none is both in a pair and in the remainder.
C1_PairsAndRemainderPartition ==
    PairingOver =>
        /\ PairIds(pairs) \cup Remainder = all_attendee_ids
        /\ PairIds(pairs) \cap Remainder = {}
        /\ \A i, j \in DOMAIN pairs :
              i /= j => Members(pairs[i]) \cap Members(pairs[j]) = {}

C1_Witness ==
    /\ pc = "done"
    /\ Len(pairs) >= 2
    /\ unmatched /= {}

\* C2: at any point of the pairing no attendee id is in two different pairs.
C2_NoIdInTwoPairs ==
    \A i, j \in DOMAIN pairs :
        i /= j => Members(pairs[i]) \cap Members(pairs[j]) = {}

C2_Witness ==
    /\ pc = "match_pairs"
    /\ Len(pairs) = 2
    /\ unallocated /= {}

\* C3: all through a find_match call the exclusion list it was given is
\* all_attendee_ids minus the unallocated set of that moment.
C3_ExclusionIsAllMinusUnallocated ==
    InFindMatch => excluded = all_attendee_ids \ unallocated

C3_Witness ==
    /\ pc = "tools"
    /\ pairs /= <<>>
    /\ unmatched /= {}
    /\ excluded = PairIds(pairs) \cup unmatched

\* C4: a search is run only while fewer than 3 attempts were made and the
\* candidate pool is still empty.
C4_SearchOnlyWhileNoCandidates ==
    [][search_attempts' = search_attempts + 1 =>
          /\ search_attempts < MaxSearchAttempts
          /\ candidates = {}]_vars

\* C5: whatever the LLM asks for, search_attempts never exceeds 3 and no
\* search is granted once 3 attempts were made.
C5_LimitCheckedBeforeToolCalls ==
    /\ search_attempts <= MaxSearchAttempts
    /\ pc = "tools" => search_attempts < MaxSearchAttempts

C5_Witness ==
    /\ pc = "finalize"
    /\ search_attempts = MaxSearchAttempts
    /\ tool_calls

\* C6: find_match ends with no candidates only after 3 attempts, its result
\* is then attendee_id -1 with confidence 0, and on a -1 result match_pairs
\* drops the focal attendee, makes no pair, reports no error and goes on
\* with its loop.
C6_NoMatchIsNormalOutcome ==
    /\ [](pc = "decide" /\ candidates = {} =>
            /\ search_attempts = MaxSearchAttempts
            /\ result = [attendee_id |-> NoMatch, confidence |-> 0])
    /\ [][pc = "decide" /\ result.attendee_id = NoMatch =>
            /\ pc' = "match_pairs"
            /\ error' = ""
            /\ pairs' = pairs
            /\ unallocated' = unallocated \ {current_attendee_id}]_vars

C6_Witness ==
    /\ pc = "decide"
    /\ candidates = {}
    /\ search_attempts = MaxSearchAttempts
    /\ result.attendee_id = NoMatch
    /\ Cardinality(unallocated) >= 3

\* C7: the k-th seat update of allocate_seats (flattened index k - 1) seats
\* the k-th attendee of the flattened pairs at table (k - 1) div capacity,
\* seat (k - 1) mod capacity; with enough seats every flattened attendee is
\* seated; capacity 3 and index 4 give table 1, seat 1.
C7_SeatByIndex ==
    /\ table_no(4, 3) = 1 /\ seat_no(4, 3) = 1
    /\ pc = "done" =>
        LET flat == Flatten(pairs) IN
        /\ Len(flat) <= TotalSeats => Len(assignments) = Len(flat)
        /\ \A k \in DOMAIN assignments :
              assignments[k] =
                  [attendee_id |-> flat[k],
                   table_no |-> (k - 1) \div ppl_per_table,
                   seat_no |-> (k - 1) % ppl_per_table]
        /\ \A k \in DOMAIN assignments :
              (\A j \in DOMAIN assignments : flat[j] = flat[k] => j = k) =>
                  /\ flat[k] \in DOMAIN seats
                  /\ seats[flat[k]] =
                        [table_no |-> (k - 1) \div ppl_per_table,
                         seat_no |-> (k - 1) % ppl_per_table]

C7_Witness ==
    /\ pc = "done"
    /\ Len(Flatten(pairs)) = 6
    /\ Len(Flatten(pairs)) <= TotalSeats
    /\ ppl_per_table = 3
    /\ assignments[5] =
          [attendee_id |-> pairs[3][1], table_no |-> 1, seat_no |-> 1]

\* C8: with more attendees to seat than seats, allocate_seats seats exactly
\* the first total_tables * ppl_per_table attendees of the flattened pairs,
\* in order, reports the others, in order, as not seated, and run() ends
\* without an error.
C8_OverflowSeatsFirstAndReportsRest ==
    pc = "done" /\ Len(Flatten(pairs)) > TotalSeats =>
        LET flat == Flatten(pairs) IN
        /\ Len(assignments) = TotalSeats
        /\ \A k \in 1..TotalSeats : assignments[k].attendee_id = flat[k]
        /\ unplaced = SubSeq(flat, TotalSeats + 1, Len(flat))
        /\ Len(unplaced) = Len(flat) - TotalSeats
        /\ error = ""

C8_Witness ==
    /\ pc = "done"
    /\ Len(Flatten(pairs)) = 4
    /\ TotalSeats = 3
    /\ Len(assignments) = 3
    /\ Len(unplaced) = 1

\* C9 as claimed: when every find_match call returned a valid partner, a
\* run that seated its pairs made N div 2 pairs and left N mod 2 attendees.
C9_AllValidGivesHalfPairs ==
    pc = "done" /\ all_valid =>
        /\ Len(pairs) = N \div 2
        /\ Cardinality(Remainder) = N % 2

\* C9 amended: when no attendee was skipped for missing facts and opinions
\* and every find_match call returned a valid partner, the run makes
\* N div 2 pairs and leaves N mod 2 attendees.
C9_NoSkipAllValidGivesHalfPairs ==
    PairingOver /\ all_valid /\ skipped = {} =>
        /\ Len(pairs) = N \div 2
        /\ Cardinality(Remainder) = N % 2

C9_Witness ==
    /\ pc = "done"
    /\ all_valid
    /\ skipped = {}
    /\ N = 5
    /\ Len(pairs) = 2
    /\ Cardinality(Remainder) = 1

\* C10 as claimed: with enough seats for all the attendees, every attendee
\* of the remainder is seated, after the paired ones.
C10_RemainderIsSeated ==
    pc = "done" /\ N <= TotalSeats =>
        \A r \in Remainder :
            \E k \in DOMAIN assignments :
                /\ assignments[k].attendee_id = r
                /\ k > Len(Flatten(pairs))

\* C10 amended: allocate_seats seats the members of the pairs only; an
\* attendee of the remainder gets no seat update and is not listed among
\* those that could not be seated.
C10_RemainderIsNotSeated ==
    pc = "done" =>
        \A r \in Remainder :
            /\ \A k \in DOMAIN assignments : assignments[k].attendee_id /= r
            /\ \A k \in DOMAIN unplaced : unplaced[k] /= r
            /\ r \notin DOMAIN seats

C10_Witness ==
    /\ pc = "done"
    /\ N = 5
    /\ N <= TotalSeats
    /\ Len(pairs) = 2
    /\ Cardinality(Remainder) = 1
    /\ Len(assignments) = 4

\* C11: when find_match returns an id that is not in unallocated (already
\* paired, already given up, or not an attendee of the event), match_pairs
\* makes no pair, takes the focal attendee out as unmatched, reports no error
\* and goes on with its loop; afterwards no id is in two pairs and the ids
\* out of unallocated (the next exclusion list) are exactly the paired and
\* the given-up ones.
C11_InvalidMatchRejected ==
    [][pc = "decide" /\ result.attendee_id /= NoMatch
          /\ result.attendee_id \notin unallocated =>
            /\ pairs' = pairs
            /\ unallocated' = unallocated \ {current_attendee_id}
            /\ current_attendee_id \in unmatched'
            /\ pc' = "match_pairs"
            /\ error' = ""
            /\ \A i, j \in DOMAIN pairs' :
                  i /= j => Members(pairs'[i]) \cap Members(pairs'[j]) = {}
            /\ Excluded(all_attendee_ids, unallocated')
                  = PairIds(pairs') \cup unmatched']_vars

C11_Witness ==
    /\ pc = "decide"
    /\ pairs /= <<>>
    /\ unmatched /= {}
    /\ result.attendee_id \in unmatched
    /\ Cardinality(unallocated) >= 3

\* C12: with fewer than 2 attendees going, run() ends at once with "Need at
\* least 2 attendees for pairing": find_match is never called, no pair is
\* made and no seat is written.
C12_TooFewAttendeesFailAtOnce ==
    N < 2 =>
        /\ pc \in {"run", "failed"}
        /\ pc = "failed" => error = "Need at least 2 attendees for pairing"
        /\ unallocated = {} /\ unmatched = {} /\ pairs = <<>>
        /\ current_attendee_id = 0 /\ search_attempts = 0
        /\ result = NoResult
        /\ assignments = <<>> /\ seats = <<>>

C12_Witness ==
    /\ N = 1
    /\ pc = "failed"
    /\ error = "Need at least 2 attendees for pairing"

\* C13 as claimed: run() fails only on a precondition failure or on a
\* collaborator fault; a run over 2 or more attendees that makes no pair
\* still ends with a normal result (stated for runs in which every attendee
\* taken out was handed to find_match).
C13_ZeroPairsIsNormalResult ==
    pc = "failed" /\ skipped = {} => N < 2 \/ error \in FaultErrors

\* C13 amended: run() ends in error on fewer than 2 attendees, on a
\* collaborator fault, and also when 2 or more attendees are going and the
\* pairing ends without a pair ("No pairs could be created"); it ends with a
\* success result only when at least one pair was made.
C13_ZeroPairsIsAnError ==
    /\ pc = "failed" =>
          \/ error = "Need at least 2 attendees for pairing" /\ N < 2
          \/ error \in FaultErrors
          \/ /\ error = "No pairs could be created"
             /\ N >= 2
             /\ pairs = <<>>
             /\ ~LoopCondition(unallocated)
    /\ pc = "done" => error = "" /\ pairs /= <<>>
    /\ pc /= "failed" => error = ""
    /\ pc \in {"allocate_seats", "commit"} => pairs /= <<>>

C13_Witness ==
    /\ pc = "failed"
    /\ error = "No pairs could be created"
    /\ N >= 3
    /\ skipped = {}
    /\ Cardinality(unmatched) >= 2
    /\ pairs = <<>>

\* C14: a re-run of an event with unchanged attendee data and a policy that
\* answers as before ends as the earlier run did (collaborator faults
\* aside): same outcome and error, same pairs and counts, same seat updates
\* and the same stored seats.
C14_RerunGivesSameResult ==
    ReplayOn /\ pc \in {"done", "failed"}
             /\ error \notin FaultErrors /\ previous.error \notin FaultErrors =>
        /\ pc = previous.pc
        /\ error = previous.error
        /\ pairs = previous.pairs
        /\ unmatched = previous.unmatched
        /\ Counts(all_attendee_ids, pairs, assignments)
              = Counts(all_attendee_ids, previous.pairs, previous.assignments)
        /\ assignments = previous.assignments
        /\ seats = previous.seats

C14_Witness ==
    /\ ReplayOn
    /\ pc = "done"
    /\ previous.pc = "done"
    /\ N = 3
    /\ pairs = <<(<<2, 3>>)>>
    /\ unmatched = {1}
    /\ seats = previous.seats
    /\ DOMAIN seats = {2, 3}

\* C15: after a completed re-run the stored seats of the event are exactly
\* those of the latest run's seat updates: who was seated by the earlier run
\* and not by the latest one holds no seat (stated for runs whose pairs are
\* all of two different attendees).
C15_StoredSeatsAreLatestRun ==
    rerun /\ pc = "done"
          /\ (\A i \in DOMAIN pairs : pairs[i][1] /= pairs[i][2])
          /\ (\A i \in DOMAIN previous.pairs :
                 previous.pairs[i][1] /= previous.pairs[i][2]) =>
        /\ seats = Stored(assignments)
        /\ \A a \in DOMAIN previous.seats :
              (\A k \in DOMAIN assignments : assignments[k].attendee_id /= a)
                  => a \notin DOMAIN seats

\* C16: no second run of an event is started while a run of it is in
\* flight.
C16_NoRunStartedWhileOneInFlight ==
    ~(concurrent_run /\ pc \notin {"done", "failed"})

\* C17: the seat updates of a run reach the table all together or not at
\* all: until the run has ended with success the stored seats are what they
\* were before it (so also after a run that failed, whether between two
\* iterations or at the commit), and after a run that succeeded every
\* attendee it updated holds the seat of its last update.
C17_SeatsCommittedAllOrNothing ==
    /\ pc /= "done" => seats = previous.seats
    /\ pc = "done" =>
          \A k \in DOMAIN assignments :
              LET a == assignments[k].attendee_id IN
              /\ a \in DOMAIN seats
              /\ seats[a] = Stored(assignments)[a]

C17_Witness ==
    /\ pc = "failed"
    /\ error = "Database lock error"
    /\ rerun
    /\ Len(assignments) = 2
    /\ seats = previous.seats
    /\ DOMAIN seats /= {}
    /\ \E k \in DOMAIN assignments :
          assignments[k].attendee_id \notin DOMAIN seats

\* C18: a tool call of _tools_node, failing or not, uses up one search
\* attempt and hands control back to the agent node: a fault of the search
\* is never passed on out of find_match.
C18_SearchFaultIsZeroCandidateAttempt ==
    [][pc = "tools" /\ tool_calls =>
          /\ pc' = "agent"
          /\ search_attempts' = search_attempts + 1
          /\ error' = ""]_vars

C22_ExclusionIsPairedOnly ==
    InFindMatch =>
        /\ excluded = PairIds(pairs)
        /\ current_attendee_id \notin excluded
        /\ excluded \cap unallocated = {}

\* C22 (amended): the exclusion set of a find_match call is the members of
\* the pairs made so far together with the attendees left without a partner
\* (no match, rejected match, skipped for missing data); it holds neither
\* the focal attendee nor an attendee still unallocated.
C22_ExclusionIsPairedAndUnmatched ==
    InFindMatch =>
        /\ excluded = PairIds(pairs) \cup unmatched \cup skipped
        /\ current_attendee_id \notin excluded
        /\ excluded \cap unallocated = {}

C22_Witness ==
    /\ pc = "agent"
    /\ current_attendee_id = 5
    /\ pairs = <<(<<1, 3>>)>>
    /\ unmatched = {2, 4}
    /\ skipped = {4}
    /\ excluded = {1, 2, 3, 4}

\* C24 (as stated): the two members of every pair are different attendees.
C24_PairMembersDistinct ==
    \A i \in DOMAIN pairs : pairs[i][1] /= pairs[i][2]

\* C25 (as stated): a partner id returned by find_match is not in the
\* exclusion set of the call and, the candidate pool being non-empty, is one
\* of the pool's candidates (as its top-ranked non-excluded one must be).
C25_PartnerIsNonExcludedCandidate ==
    pc = "decide" /\ result.attendee_id /= NoMatch =>
        /\ result.attendee_id \notin excluded
        /\ candidates /= {} => result.attendee_id \in candidates

\* C26: the focal attendee of an iteration is the lowest id in unallocated;
\* it is higher than the focal attendee of every earlier iteration, so the
\* focal ids of a run strictly increase and no attendee is focal twice.
C26_FocalIsLowestAndIncreasing ==
    /\ InFindMatch =>
          /\ current_attendee_id \in unallocated
          /\ \A u \in unallocated : current_attendee_id <= u
          /\ \A f \in PastFocals : f < current_attendee_id
    /\ \A f \in PastFocals : \A u \in unallocated : f < u
    /\ \A i, j \in DOMAIN pairs : i < j => pairs[i][1] < pairs[j][1]
    /\ \A i \in DOMAIN pairs : pairs[i][1] \notin unmatched

C26_Witness ==
    /\ pc = "agent"
    /\ current_attendee_id = 4
    /\ pairs = <<(<<1, 3>>), (<<2, 5>>)>>
    /\ unallocated = {4, 6}

\* C23 (as stated): the pairing loop always terminates: an iteration ends by
\* taking its focal attendee out of unallocated, no attendee comes back into
\* unallocated, and the loop is left in the end.
C23_LoopAlwaysTerminates ==
    /\ [][/\ unallocated' \subseteq unallocated \/ pc = "run"
          /\ InFindMatch /\ pc' = "match_pairs" =>
                /\ current_attendee_id \in unallocated
                /\ current_attendee_id \notin unallocated']_vars
    /\ <>LoopOver

C29_QueriesPairwiseDifferent ==
    \A i, j \in DOMAIN queries : i /= j => queries[i] /= queries[j]

\* C30 (as stated): after any allocation, first run or re-run, no two
\* attendees hold the same (table_no, seat_no) in the stored seats, and every
\* seat update lies within the tables and the capacity of the event (stated
\* for runs whose pairs are all of two different attendees).
C30_NoSharedSeatAndInRange ==
    pc = "done"
      /\ (\A i \in DOMAIN pairs : pairs[i][1] /= pairs[i][2])
      /\ (\A i \in DOMAIN previous.pairs :
             previous.pairs[i][1] /= previous.pairs[i][2]) =>
        /\ \A a, b \in DOMAIN seats : a /= b => seats[a] /= seats[b]
        /\ \A k \in DOMAIN assignments :
              /\ 0 <= assignments[k].table_no
              /\ assignments[k].table_no < total_tables
              /\ 0 <= assignments[k].seat_no
              /\ assignments[k].seat_no < ppl_per_table

C32_PairMembersAdjacent ==
    pc = "done" =>
        \A i \in DOMAIN pairs :
            2 * i <= Len(assignments) =>
                LET first == assignments[2 * i - 1]
                    second == assignments[2 * i]
                IN
                /\ first.attendee_id = pairs[i][1]
                /\ second.attendee_id = pairs[i][2]
                /\ ppl_per_table % 2 = 0 =>
                      /\ first.table_no = second.table_no
                      /\ second.seat_no = first.seat_no + 1
                      /\ pairs[i][1] /= pairs[i][2] =>
                            /\ seats[pairs[i][1]].table_no
                                  = seats[pairs[i][2]].table_no
                            /\ seats[pairs[i][2]].seat_no
                                  = seats[pairs[i][1]].seat_no + 1

C32_Witness ==
    /\ pc = "done"
    /\ ppl_per_table = 2
    /\ total_tables = 2
    /\ pairs = <<(<<1, 3>>), (<<2, 4>>)>>
    /\ Len(assignments) = 4
    /\ seats[2] = [table_no |-> 1, seat_no |-> 0]
    /\ seats[4] = [table_no |-> 1, seat_no |-> 1]

\* C33 (as stated): once an interval is started, the polling stops for
\* good: from some point on no interval is running and no poll request can
\* be answered.
C33_PollingAlwaysStops ==
    (intervals /= <<>>) ~> [](intervals = <<>> /\ in_flight = {})

\* C34 (as stated): at most one interval is running at any time, and none
\* after stopPolling (pollingIntervalRef null) or after the unmount.
C34_AtMostOneInterval ==
    /\ Cardinality(DOMAIN intervals) <= 1
    /\ pollingIntervalRef = 0 => intervals = <<>>
    /\ step = "VIEW_PLAN" /\ sends = <<>> => intervals = <<>>

\* C35: at most one poll request can be answered at any time, the one
\* started last: every request started before it was aborted, and an
\* aborted request is never answered.
C35_OnePollInFlight ==
    /\ Cardinality(in_flight) <= 1
    /\ in_flight \subseteq {abortControllerRef}

C35_Witness ==
    /\ DOMAIN intervals = {1, 2}
    /\ intervals[1].pollCount = 2
    /\ intervals[2].pollCount = 1
    /\ abortControllerRef = <<2, 1, 1>>
    /\ in_flight = {abortControllerRef}
    /\ rsvpStatus = {}

\* C36: a request to generate the plan is made only in a state in which the
\* invites are sent, a row is invited and as many rsvp entries are true as
\* rows are invited.
C36_GenerateOnlyWhenAllRsvped ==
    [][allocate_requests' > allocate_requests =>
          /\ invitesSent
          /\ totalInvited > 0
          /\ Cardinality(rsvpStatus) = totalInvited
          /\ step = "MANAGE_ATTENDEES"]_vars

C36_Witness ==
    /\ allocate_requests = 1
    /\ step = "MANAGE_ATTENDEES"
    /\ invitesSent
    /\ totalInvited = 2
    /\ rsvpStatus = {1, 2}
    /\ intervals = <<>>

\* C37: the step goes from CREATE_EVENT to MANAGE_ATTENDEES to VIEW_PLAN and
\* never back; it becomes VIEW_PLAN only in the step in which an awaited
\* allocate_seats request of a non-null event id succeeds and the plan is
\* set; without an event id no request is made, and while the step is not
\* VIEW_PLAN no plan is set.
C37_StepOnlyForward ==
    /\ [](/\ step /= "VIEW_PLAN" => seatingPlan = "null"
          /\ eventId = 0 => allocate_requests = 0 /\ step /= "VIEW_PLAN")
    /\ [][/\ step = "CREATE_EVENT" =>
                step' \in {"CREATE_EVENT", "MANAGE_ATTENDEES"}
          /\ step = "MANAGE_ATTENDEES" =>
                step' \in {"MANAGE_ATTENDEES", "VIEW_PLAN"}
          /\ step = "VIEW_PLAN" => step' = "VIEW_PLAN"
          /\ step /= "VIEW_PLAN" /\ step' = "VIEW_PLAN" =>
                /\ eventId /= 0
                /\ allocate_requests > 0
                /\ allocate_requests' = allocate_requests - 1
                /\ seatingPlan' = "placeholder"]_vars

C37_Witness ==
    /\ step = "VIEW_PLAN"
    /\ seatingPlan = "placeholder"
    /\ eventId = 1
    /\ allocate_requests = 0
    /\ invitesSent
    /\ rsvpStatus = {1}
    /\ totalInvited = 1

\* C38 (as stated): the view value shown for an attendee is the stored value
\* clamped to [0,1] whenever the selected view is one of settings.views and
\* the attendee has a value at its index, the value 0 included, and the
\* neutral 0.5 otherwise.
C38_ViewValueIsClampedStoredValue ==
    seatingLayout.status = "ok" =>
        \A k \in DOMAIN seatingLayout.tables :
            \A j \in DOMAIN seatingLayout.tables[k].chips :
                LET chip == seatingLayout.tables[k].chips[j]
                    all == AllAttendees(plan)
                    a == all[Min({i \in DOMAIN all : all[i].id = chip.id})]
                    viewIndex == indexOf(settings_views, selectedView)
                IN chip.value =
                      IF viewIndex /= -1 /\ viewIndex + 1 \in DOMAIN a.views
                      THEN Clamp(a.views[viewIndex + 1])
                      ELSE 50

\* C39 (as stated): the render never fails, and every rendered table has
\* capacity minus occupants placeholders, never a negative number.
C39_EmptySeatsNeverNegative ==
    /\ seatingLayout.status /= "RangeError"
    /\ \A k \in DOMAIN seatingLayout.tables :
          LET table == seatingLayout.tables[k]
          IN /\ table.empty = table.capacity - table.occupants
             /\ table.empty >= 0
====
